---- MODULE Spec2Model ----
(***************************************************************************)
(* franz: a Kafka command line client (src/franz/__init__.py).             *)
(*                                                                         *)
(* Three command paths are modelled, each as its own specification over    *)
(* the same variables:                                                     *)
(*   Spec        slice_consumer, the bounded range-slicing generator       *)
(*   SpecFetch   the topic-spec parsing loop of fetch                      *)
(*   SpecProduce the send loop of produce                                  *)
(* A variable a command path does not use keeps its idle value.            *)
(***************************************************************************)
EXTENDS Integers, Sequences, FiniteSets, TLC

VARIABLES
    \* ---- slice_consumer ----
    pc,            \* position of the generator: start, pull, done, timeout, error
    caller_dict,   \* the topic_dict argument, as the caller holds it
    topic_dict,    \* the working copy made at line 44
    assigned,      \* the client's current assignment (last consumer.assign)
    assign_calls,  \* number of consumer.assign calls
    seeks,         \* per partition, the offsets given to consumer.seek, in order
    pulled,        \* messages the for loop has taken from the client, in order
    yielded,       \* messages yielded to the caller, in order
    error,         \* the exception that ended the generator, or "none"
    offsets,       \* the offsets the client may deliver in this run
    max_pulls,     \* the length of the delivered stream in this run
    \* ---- fetch ----
    fpc,           \* position of fetch: parse, consume, exit, error
    topic,         \* the TOPIC arguments (strings as sequences of characters)
    arg_src,       \* how each argument was written: its fragments, or "raw"
    arg_i,         \* number of arguments the for loop has taken
    fetch_dict,    \* topic_dict as fetch builds it
    logged,        \* arguments named by logging.error
    exit_status,   \* process exit status, -1 while running
    consumer_made, \* whether KafkaConsumer(...) has been constructed
    raised,        \* the uncaught exception that ended fetch, or "none"
    \* ---- produce ----
    ppc,           \* position of produce: read, body, flush, close, done, error
    ptopic,        \* the TOPIC argument of produce
    json_value,    \* the -j flag
    input,         \* the lines standard input holds when produce starts
    stdin,         \* the input lines not yet read
    line,          \* the line being processed
    processed,     \* number of lines whose loop body ran to its end
    sends,         \* the producer.send calls, in order
    flushes,       \* number of producer.flush calls
    closes,        \* number of producer.close calls
    perror,        \* the uncaught exception that ended produce, or "none"
    interrupted,   \* whether KeyboardInterrupt was raised in the loop
    \* ---- the output loop of fetch and consume ----
    cmd,           \* the command running the loop: fetch or consume
    rpc,           \* position of the loop: next, body, partial, close, exited, crashed
    out,           \* the records written to sys.stdout, each complete or not
    close_calls,   \* number of consumer.close calls
    sigint,        \* whether KeyboardInterrupt was raised in the loop
    run_status     \* exit status of the command, -1 while running

cvars == <<pc, caller_dict, topic_dict, assigned, assign_calls, seeks,
           pulled, yielded, error, offsets, max_pulls>>
fvars == <<fpc, topic, arg_src, arg_i, fetch_dict, logged, exit_status,
           consumer_made, raised>>
pvars == <<ppc, ptopic, json_value, input, stdin, line, processed, sends,
           flushes, closes, perror, interrupted>>
rvars == <<cmd, rpc, out, close_calls, sigint, run_status>>
vars == <<cvars, fvars, pvars, rvars>>

\* Python's None, where the code stores it in place of an integer (an open
\* window end).  Offsets and parsed numbers are never negative.
None == -1

(***************************************************************************)
(* Bounds of the slice_consumer model.                                     *)
(***************************************************************************)
MaxOffset == 3
MaxPulls == 3

\* TopicPartition values of the run; windows are requested on RequestTPs,
\* the client may deliver messages of any of TPs.
RequestTPs == {<<"t", 0>>, <<"t", 1>>}
TPs == RequestTPs \cup {<<"u", 0>>}

\* (start, end) pairs, an end before its start included (fetch builds such
\* windows from a fragment like 2:1)
WindowChoices == (0..(MaxOffset - 1)) \X ((0..MaxOffset) \cup {None})

\* all window maps over a subset of RequestTPs
WindowMaps == UNION {[S -> WindowChoices] : S \in SUBSET RequestTPs}

TopicPartition(m) == <<m.topic, m.partition>>

Messages(offs) ==
    {[topic |-> tp[1], partition |-> tp[2], offset |-> o] : tp \in TPs, o \in offs}

\* dict without one key
DelKey(d, k) == [x \in (DOMAIN d) \ {k} |-> d[x]]

\* ---- the tests of the loop body, lines 55-64 ----
BelowStart(offset, start) == offset < start

\* a plausible slip of line 58: the test for an open end is left out
AtLast_Unbounded(offset, end) == offset >= (end - 1)

\* a plausible slip of line 59: the window is closed by the offset end only
AtLast_Strict(offset, end) == end # None /\ offset >= end

AtLast(offset, end) == end # None /\ offset >= (end - 1)

\* a plausible slip of line 63: the closing offset end - 1 is discarded too
PastEnd_OffByOne(offset, end) == end # None /\ offset >= (end - 1)

\* a plausible slip of line 63: the offset end itself is let through
PastEnd_Strict(offset, end) == end # None /\ offset > end

PastEnd(offset, end) == end # None /\ offset >= end

\* a plausible slip of line 69: the emptiness test never succeeds
Finished_Never(d) == FALSE

\* line 69: not topic_dict
Finished(d) == DOMAIN d = {}

\* offset of the last message of partition tp in a stream, -1 when none
RECURSIVE LastOffset(_, _)
LastOffset(s, tp) ==
    IF s = <<>> THEN -1
    ELSE IF TopicPartition(s[Len(s)]) = tp THEN s[Len(s)].offset
    ELSE LastOffset(SubSeq(s, 1, Len(s) - 1), tp)

(***************************************************************************)
(* slice_consumer                                                          *)
(***************************************************************************)
\* a plausible slip of lines 60-61: the assignment is left as it was made
assign_consumer_Initial(d) == DOMAIN caller_dict

\* lines 31-32: consumer.assign(topic_dict.keys()), the new assignment
assign_consumer(d) == DOMAIN d

\* a plausible slip of line 37: the consumer is sought to the window's end
seek_consumer_ToEnd(d, s) ==
    [tp \in DOMAIN s |-> IF tp \in DOMAIN d THEN Append(s[tp], d[tp][2]) ELSE s[tp]]

\* lines 35-37: consumer.seek(tp, start) for every window; s holds the
\* positions sought so far, by partition
seek_consumer(d, s) ==
    [tp \in DOMAIN s |-> IF tp \in DOMAIN d THEN Append(s[tp], d[tp][1]) ELSE s[tp]]

\* a plausible slip of line 44: no copy, the loop works on the caller's map
CallerMap_Aliased(caller, working) == working

\* line 44: the loop's map is a copy, so what the loop does to its working
\* map (line 60) leaves the caller's map as it was
CallerMap(caller, working) == caller

ConsumerIdle ==
    /\ pc = "idle" /\ caller_dict = <<>> /\ topic_dict = <<>>
    /\ assigned = {} /\ assign_calls = 0 /\ seeks = <<>>
    /\ pulled = <<>> /\ yielded = <<>> /\ error = "none"
    /\ offsets = {} /\ max_pulls = 0

FetchIdle ==
    /\ fpc = "idle" /\ topic = <<>> /\ arg_src = <<>> /\ arg_i = 0
    /\ fetch_dict = <<>> /\ logged = <<>> /\ exit_status = -1
    /\ consumer_made = FALSE /\ raised = "none"

ProduceIdle ==
    /\ ppc = "idle" /\ ptopic = <<>> /\ json_value = FALSE /\ input = <<>>
    /\ stdin = <<>> /\ line = <<>> /\ processed = 0 /\ sends = <<>>
    /\ flushes = 0 /\ closes = 0 /\ perror = "none" /\ interrupted = FALSE

RunIdle ==
    /\ cmd = "idle" /\ rpc = "idle" /\ out = <<>> /\ close_calls = 0
    /\ sigint = FALSE /\ run_status = -1

\* The call slice_consumer(topic_dict, consumer): nothing has run yet (a
\* generator runs on its first next()).
InitRun(d, offs, n) ==
    /\ pc = "start"
    /\ caller_dict = d
    /\ topic_dict = d
    /\ assigned = {}
    /\ assign_calls = 0
    /\ seeks = [tp \in TPs |-> <<>>]
    /\ pulled = <<>>
    /\ yielded = <<>>
    /\ error = "none"
    /\ offsets = offs
    /\ max_pulls = n

Init ==
    /\ \/ \E d \in WindowMaps : InitRun(d, 0..MaxOffset, MaxPulls)
       \* the run of the window [5, 8) on one partition, fed offsets from 4 to 9
       \/ InitRun([tp \in {<<"t", 0>>} |-> <<5, 8>>], 4..9, 6)
    /\ FetchIdle
    /\ ProduceIdle
    /\ RunIdle

\* lines 41-44: assign, seek every window to its start, copy the map
Start ==
    /\ pc = "start"
    /\ assigned' = assign_consumer(caller_dict)
    /\ assign_calls' = assign_calls + 1
    /\ seeks' = seek_consumer(caller_dict, seeks)
    /\ topic_dict' = caller_dict
    /\ pc' = "pull"
    /\ UNCHANGED <<caller_dict, pulled, yielded, error, offsets, max_pulls>>

\* lines 45-70: one iteration of the for loop on message m
Pull(m) ==
    /\ pc = "pull"
    /\ Len(pulled) < max_pulls
    /\ m.offset >= LastOffset(pulled, TopicPartition(m))
    /\ pulled' = Append(pulled, m)
    /\ LET tp == TopicPartition(m) IN
       IF tp \notin DOMAIN topic_dict
       THEN \* line 53: topic_dict[tp] raises KeyError
            /\ pc' = "error"
            /\ error' = "KeyError"
            /\ UNCHANGED <<caller_dict, topic_dict, assigned, assign_calls, yielded>>
       ELSE LET start == topic_dict[tp][1]
                end == topic_dict[tp][2]
                del == AtLast(m.offset, end)
                wanted == ~BelowStart(m.offset, start) /\ ~PastEnd(m.offset, end)
                after == IF del THEN DelKey(topic_dict, tp) ELSE topic_dict
            IN  /\ topic_dict' = after
                /\ caller_dict' = CallerMap(caller_dict, after)
                /\ assigned' = IF del THEN assign_consumer(after) ELSE assigned
                /\ assign_calls' = IF del THEN assign_calls + 1 ELSE assign_calls
                /\ yielded' = IF wanted THEN Append(yielded, m) ELSE yielded
                /\ pc' = IF Finished(after) THEN "done" ELSE "pull"
                /\ UNCHANGED error
    /\ UNCHANGED <<seeks, offsets, max_pulls>>

PullAny == \E m \in Messages(offsets) : Pull(m)

\* the client's stop condition (consumer_timeout_ms elapsed): the for loop ends
Timeout ==
    /\ pc = "pull"
    /\ pc' = "timeout"
    /\ UNCHANGED <<caller_dict, topic_dict, assigned, assign_calls, seeks,
                   pulled, yielded, error, offsets, max_pulls>>

Next ==
    \/ Start /\ UNCHANGED <<fvars, pvars, rvars>>
    \/ PullAny /\ UNCHANGED <<fvars, pvars, rvars>>
    \/ Timeout /\ UNCHANGED <<fvars, pvars, rvars>>

Spec == Init /\ [][Next]_vars

(***************************************************************************)
(* fetch: the topic-spec parsing loop, lines 117-171.  A string is the     *)
(* sequence of its characters.                                             *)
(***************************************************************************)
\* line 121: all_partitions = range(8)
NumPartitions == 8

all_partitions == 0..(NumPartitions - 1)

DigitChars == <<"0", "1", "2", "3", "4", "5", "6", "7", "8", "9">>

Digits == {DigitChars[i] : i \in 1..10}

DigitVal(c) == (CHOOSE i \in 1..10 : DigitChars[i] = c) - 1

\* the class [\d,:=+] of the pattern of line 125
SpecChars == Digits \cup {",", ":", "=", "+"}

\* first position of character c in s, 0 when absent (c in s  <=>  > 0)
IndexOf(s, c) ==
    IF \E i \in 1..Len(s) : s[i] = c
    THEN CHOOSE i \in 1..Len(s) : s[i] = c /\ \A j \in 1..(i - 1) : s[j] # c
    ELSE 0

From(s, i) == SubSeq(s, i, Len(s))

\* str.split(c)
RECURSIVE Split(_, _)
Split(s, c) ==
    IF IndexOf(s, c) = 0 THEN <<s>>
    ELSE <<SubSeq(s, 1, IndexOf(s, c) - 1)>> \o Split(From(s, IndexOf(s, c) + 1), c)

\* str.split(c, 1), for a string that holds c
Split1(s, c) == <<SubSeq(s, 1, IndexOf(s, c) - 1), From(s, IndexOf(s, c) + 1)>>

AllDigits(s) == s # <<>> /\ \A i \in 1..Len(s) : s[i] \in Digits

\* whether int(s) returns (it raises ValueError otherwise); of the characters
\* the pattern lets through, int accepts digits with an optional leading +
IntOk(s) == AllDigits(s) \/ (s # <<>> /\ s[1] = "+" /\ AllDigits(From(s, 2)))

RECURSIVE DigitsVal(_)
DigitsVal(s) ==
    IF s = <<>> THEN 0
    ELSE 10 * DigitsVal(SubSeq(s, 1, Len(s) - 1)) + DigitVal(s[Len(s)])

\* int(s), for IntOk(s)
int(s) == IF s[1] = "+" THEN DigitsVal(From(s, 2)) ELSE DigitsVal(s)

\* line 125: re.search(r'^([^\[\]]+)(\[([\d,:=+]+)\])?$', t) and its groups;
\* has_spec is FALSE when the bracketed group did not take part (slice_spec
\* is then None).  Strings here hold no newline.
Match(t) ==
    LET brackets == {i \in 1..Len(t) : t[i] \in {"[", "]"}}
        open == IF brackets = {} THEN 0
                ELSE CHOOSE i \in brackets : \A j \in brackets : i <= j
        inner == SubSeq(t, open + 1, Len(t) - 1)
    IN  IF brackets = {}
        THEN [matched |-> t # <<>>, topic |-> t, has_spec |-> FALSE,
              slice_spec |-> <<>>]
        ELSE [matched |-> /\ open >= 2
                          /\ t[open] = "["
                          /\ t[Len(t)] = "]"
                          /\ inner # <<>>
                          /\ \A i \in 1..Len(inner) : inner[i] \in SpecChars,
              topic |-> SubSeq(t, 1, open - 1),
              has_spec |-> TRUE,
              slice_spec |-> inner]

\* a plausible slip of line 158: the single offset N read as the window [N, N)
SingleEnd_Empty(start) == start

\* line 158: end = start + 1
SingleEnd(start) == start + 1

\* a plausible slip of line 153: +K read as an absolute end
RelativeEnd_Absolute(start, k) == k

\* line 153: end = start + int(end[1:])
RelativeEnd(start, k) == start + k

\* lines 142-158: the (start, end) of a slice without its partition prefix;
\* ok is FALSE when an int() raises ValueError
ParseRange(s) ==
    IF IndexOf(s, ":") > 0
    THEN LET start_s == Split1(s, ":")[1]
             end_s == Split1(s, ":")[2]
             start_ok == start_s = <<>> \/ IntOk(start_s)
             start == IF start_s = <<>> THEN 0
                      ELSE IF IntOk(start_s) THEN int(start_s) ELSE 0
             end_ok == \/ end_s = <<>>
                       \/ end_s[1] = "+" /\ IntOk(From(end_s, 2))
                       \/ end_s[1] # "+" /\ IntOk(end_s)
             end == IF ~end_ok \/ end_s = <<>> THEN None
                    ELSE IF end_s[1] = "+"
                         THEN RelativeEnd(start, int(From(end_s, 2)))
                         ELSE int(end_s)
         IN  [ok |-> start_ok /\ end_ok, start |-> start, end |-> end]
    ELSE IF IntOk(s)
         THEN [ok |-> TRUE, start |-> int(s), end |-> SingleEnd(int(s))]
         ELSE [ok |-> FALSE, start |-> 0, end |-> None]

\* lines 136-158: one slice; ok is FALSE when an int() raises ValueError
ParseSlice(s) ==
    IF IndexOf(s, "=") > 0
    THEN LET partition == Split1(s, "=")[1]
             range == ParseRange(Split1(s, "=")[2])
         IN  IF IntOk(partition)
             THEN [ok |-> range.ok, partitions |-> {int(partition)},
                   start |-> range.start, end |-> range.end]
             ELSE [ok |-> FALSE, partitions |-> {}, start |-> 0, end |-> None]
    ELSE LET range == ParseRange(s)
         IN  [ok |-> range.ok, partitions |-> all_partitions,
              start |-> range.start, end |-> range.end]

\* a plausible slip of lines 160-162: an entry already present is kept
SetWindows_FirstWins(d, name, partitions, w) ==
    LET keys == {<<name, p>> : p \in partitions}
    IN  [k \in (DOMAIN d) \cup keys |-> IF k \in DOMAIN d THEN d[k] ELSE w]

\* lines 160-162: topic_dict[TopicPartition(topic, partition)] = (start, end)
SetWindows(d, name, partitions, w) ==
    LET keys == {<<name, p>> : p \in partitions}
    IN  [k \in (DOMAIN d) \cup keys |-> IF k \in keys THEN w ELSE d[k]]

\* lines 135-162: the slices in order, up to the first ValueError
RECURSIVE ParseSlices(_, _, _)
ParseSlices(d, name, slices) ==
    IF slices = <<>> THEN [ok |-> TRUE, dict |-> d]
    ELSE LET r == ParseSlice(slices[1])
         IN  IF ~r.ok THEN [ok |-> FALSE, dict |-> d]
             ELSE ParseSlices(SetWindows(d, name, r.partitions, <<r.start, r.end>>),
                              name, From(slices, 2))

FetchInit(args, src) ==
    /\ fpc = "parse"
    /\ topic = args
    /\ arg_src = src
    /\ arg_i = 0
    /\ fetch_dict = <<>>
    /\ logged = <<>>
    /\ exit_status = -1
    /\ consumer_made = FALSE
    /\ raised = "none"

\* lines 119-162: one iteration of the for loop over the TOPIC arguments
ParseArg ==
    /\ fpc = "parse"
    /\ arg_i < Len(topic)
    /\ arg_i' = arg_i + 1
    /\ LET t == topic[arg_i + 1]
           match == Match(t)
       IN  IF ~match.matched
           THEN \* lines 126-128: logging.error, exit(1)
                /\ logged' = Append(logged, t)
                /\ exit_status' = 1
                /\ fpc' = "exit"
                /\ UNCHANGED <<fetch_dict, raised>>
           ELSE IF ~match.has_spec
           THEN \* line 134: None.split(',') raises AttributeError
                /\ raised' = "AttributeError"
                /\ exit_status' = 1
                /\ fpc' = "error"
                /\ UNCHANGED <<fetch_dict, logged>>
           ELSE LET r == ParseSlices(fetch_dict, match.topic,
                                     Split(match.slice_spec, ","))
                IN  IF r.ok
                    THEN /\ fetch_dict' = r.dict
                         /\ UNCHANGED <<fpc, logged, exit_status, raised>>
                    ELSE \* an int() of lines 138-157 raises ValueError
                         /\ raised' = "ValueError"
                         /\ exit_status' = 1
                         /\ fpc' = "error"
                         /\ UNCHANGED <<fetch_dict, logged>>
    /\ UNCHANGED <<topic, arg_src, consumer_made>>

\* lines 164-174: the consumer is constructed and topic_dict is handed to
\* slice_consumer
MakeConsumer ==
    /\ fpc = "parse"
    /\ arg_i = Len(topic)
    /\ consumer_made' = TRUE
    /\ fpc' = "consume"
    /\ UNCHANGED <<topic, arg_src, arg_i, fetch_dict, logged, exit_status, raised>>

(***************************************************************************)
(* The TOPIC arguments fetch is run on: arguments written from fragments   *)
(* of the mini-language (kept in arg_src beside their text), and arbitrary *)
(* short strings.                                                          *)
(***************************************************************************)
MaxFrags == 2
MaxArgLen == 4

TopicNames == {<<"t">>, <<"u">>}

\* a written number is <<n>>, an omitted one <<>>
Written(S) == {<<>>} \cup {<<n>> : n \in S}

\* fragments of one kind: single (N), range (S:E, S:, :E, :) or relative
\* (S:+K, :+K), with the given prefixes P= (<<>> for none) and numbers
Single(parts, starts) ==
    [part : parts, kind : {"single"}, start : starts, end : {<<>>}, rel : {FALSE}]

Range(parts, starts, ends) ==
    [part : parts, kind : {"range"}, start : starts, end : ends, rel : {FALSE}]

Relative(parts, starts, lengths) ==
    [part : parts, kind : {"range"}, start : starts, end : lengths, rel : {TRUE}]

Frags ==
    Single({<<>>}, {<<0>>, <<3>>})
    \cup Range({<<>>}, Written({0, 3}), Written({0, 5, 10}))
    \cup Relative({<<>>}, Written({0, 3}), {<<2>>})
    \cup Single({<<0>>}, {<<3>>})
    \cup Range({<<0>>}, {<<3>>}, Written({5}))
    \cup Relative({<<1>>}, {<<>>}, {<<2>>})

\* decimal digits of n
RECURSIVE Dec(_)
Dec(n) ==
    IF n < 10 THEN <<DigitChars[n + 1]>>
    ELSE Dec(n \div 10) \o <<DigitChars[(n % 10) + 1]>>

Opt(w) == IF w = <<>> THEN <<>> ELSE Dec(w[1])

\* the text of a fragment
Render(f) ==
    (IF f.part = <<>> THEN <<>> ELSE Dec(f.part[1]) \o <<"=">>)
    \o (IF f.kind = "single" THEN Dec(f.start[1])
        ELSE Opt(f.start) \o <<":">>
             \o (IF f.rel THEN <<"+">> ELSE <<>>) \o Opt(f.end))

RECURSIVE Join(_)
Join(fs) ==
    IF Len(fs) = 1 THEN Render(fs[1])
    ELSE Render(fs[1]) \o <<",">> \o Join(From(fs, 2))

\* the text of an argument topic[f1,f2,...]
RenderArg(a) == a.name \o <<"[">> \o Join(a.frags) \o <<"]">>

\* the elements of a set of numbers in increasing order
RECURSIVE Sorted(_)
Sorted(S) ==
    IF S = {} THEN <<>>
    ELSE LET least == CHOOSE x \in S : \A y \in S : x <= y
         IN  <<least>> \o Sorted(S \ {least})

\* the fragments fs written as arguments: a new argument, named names[c],
\* starts after each fragment c of cuts; the first argument names topic t
Arguments(fs, cuts, names) ==
    LET starts == Sorted({0} \cup cuts)
        stop(k) == IF k = Len(starts) THEN Len(fs) ELSE starts[k + 1]
    IN  [k \in 1..Len(starts) |->
            [name |-> IF starts[k] = 0 THEN <<"t">> ELSE names[starts[k]],
             frags |-> SubSeq(fs, starts[k] + 1, stop(k))]]

RawChars == {"t", "[", "]", "1", ",", ":", "=", "+"}

RawStrings == UNION {[1..n -> RawChars] : n \in 1..MaxArgLen}

InitFetch ==
    /\ \/ \E n \in 1..MaxFrags :
            \E fs \in [1..n -> Frags] :
               \E cuts \in SUBSET (1..(n - 1)) :
                  \E names \in [cuts -> TopicNames] :
                     LET src == Arguments(fs, cuts, names)
                     IN  FetchInit([k \in 1..Len(src) |-> RenderArg(src[k])], src)
       \/ \E r \in RawStrings : FetchInit(<<r>>, <<>>)
       \/ FetchInit(<<>>, <<>>)
    /\ ConsumerIdle
    /\ ProduceIdle
    /\ RunIdle

NextFetch ==
    \/ ParseArg /\ UNCHANGED <<cvars, pvars, rvars>>
    \/ MakeConsumer /\ UNCHANGED <<cvars, pvars, rvars>>

SpecFetch == InitFetch /\ [][NextFetch]_vars

(***************************************************************************)
(* produce: the send loop, lines 340-369.  An input line is given by what  *)
(* json.loads makes of it: no JSON at all ("invalid"), a JSON value that   *)
(* is not an object ("scalar"), or an object, a function from its field    *)
(* names to their values.  String values are sequences of characters.      *)
(***************************************************************************)
MaxLines == 2

Values == {<<"x">>, <<"y">>}

\* a JSON object with the given string fields and, when with_partition, the
\* field partition = 1
Line(fields, with_partition) ==
    [kind |-> "object", fields |-> fields, partition |-> with_partition]

Lines ==
    {[kind |-> k, fields |-> <<>>, partition |-> FALSE] : k \in {"invalid", "scalar"}}
    \cup {Line(f, b) :
            f \in UNION {[S -> Values] : S \in SUBSET {"value", "key"}},
            b \in BOOLEAN}

\* 'name' in message
HasField(message, name) ==
    IF name = "partition" THEN message.partition
    ELSE name \in DOMAIN message.fields

\* message[name]
Field(message, name) ==
    IF name = "partition" THEN 1 ELSE message.fields[name]

\* lines 347-350: json.dumps of a string value, the value between quotes
Dumps(value) == <<"\"">> \o value \o <<"\"">>

\* a plausible slip of lines 360-361: the partition override is dropped
SendArgs_NoPartition(name, message, jv) ==
    [k \in {"topic", "value"}
           \cup (IF HasField(message, "key") THEN {"key"} ELSE {}) |->
        CASE k = "topic" -> name
          [] k = "value" -> IF jv THEN Dumps(Field(message, "value"))
                            ELSE Field(message, "value")
          [] k = "key" -> Field(message, "key")]

\* lines 343-361: the keyword arguments of producer.send
SendArgs(name, message, jv) ==
    [k \in {"topic", "value"}
           \cup (IF HasField(message, "key") THEN {"key"} ELSE {})
           \cup (IF HasField(message, "partition") THEN {"partition"} ELSE {}) |->
        CASE k = "topic" -> name
          [] k = "value" -> IF jv THEN Dumps(Field(message, "value"))
                            ELSE Field(message, "value")
          [] k = "key" -> Field(message, "key")
          [] k = "partition" -> Field(message, "partition")]

InitProduce ==
    /\ ppc = "read"
    /\ ptopic \in TopicNames
    /\ json_value \in BOOLEAN
    /\ input \in UNION {[1..n -> Lines] : n \in 0..MaxLines}
    /\ stdin = input
    /\ line = <<>>
    /\ processed = 0
    /\ sends = <<>>
    /\ flushes = 0
    /\ closes = 0
    /\ perror = "none"
    /\ interrupted = FALSE
    /\ ConsumerIdle
    /\ FetchIdle
    /\ RunIdle

\* line 341: the for loop takes the next line of sys.stdin
ReadLine ==
    /\ ppc = "read"
    /\ stdin # <<>>
    /\ line' = <<Head(stdin)>>
    /\ stdin' = Tail(stdin)
    /\ ppc' = "body"
    /\ UNCHANGED <<ptopic, json_value, input, processed, sends, flushes, closes,
                   perror, interrupted>>

\* line 341: sys.stdin is exhausted, the for loop ends
EndOfInput ==
    /\ ppc = "read"
    /\ stdin = <<>>
    /\ ppc' = "flush"
    /\ UNCHANGED <<ptopic, json_value, input, stdin, line, processed, sends,
                   flushes, closes, perror, interrupted>>

\* a plausible slip of lines 340-366: a line that cannot be sent is skipped
\* and the loop goes on
Body_ContinueOnError ==
    /\ ppc = "body"
    /\ LET message == line[1] IN
       IF message.kind # "object" \/ ~HasField(message, "value")
       THEN /\ ppc' = "read"
            /\ UNCHANGED <<sends, processed, perror>>
       ELSE /\ sends' = Append(sends, SendArgs(ptopic, message, json_value))
            /\ processed' = processed + 1
            /\ ppc' = "read"
            /\ UNCHANGED perror
    /\ UNCHANGED <<ptopic, json_value, input, stdin, line, flushes, closes,
                   interrupted>>

\* lines 342-363: the loop body on the line just read
Body ==
    /\ ppc = "body"
    /\ LET message == line[1] IN
       IF message.kind = "invalid"
       THEN \* line 342: json.loads raises JSONDecodeError
            /\ perror' = "JSONDecodeError"
            /\ ppc' = "error"
            /\ UNCHANGED <<sends, processed>>
       ELSE IF message.kind = "scalar"
       THEN \* line 343: message['value'] raises TypeError
            /\ perror' = "TypeError"
            /\ ppc' = "error"
            /\ UNCHANGED <<sends, processed>>
       ELSE IF ~HasField(message, "value")
       THEN \* line 343: message['value'] raises KeyError
            /\ perror' = "KeyError"
            /\ ppc' = "error"
            /\ UNCHANGED <<sends, processed>>
       ELSE /\ sends' = Append(sends, SendArgs(ptopic, message, json_value))
            /\ processed' = processed + 1
            /\ ppc' = "read"
            /\ UNCHANGED perror
    /\ UNCHANGED <<ptopic, json_value, input, stdin, line, flushes, closes,
                   interrupted>>

\* lines 365-366: KeyboardInterrupt, while waiting for a line or in the loop
\* body before the send
Interrupt ==
    /\ ppc \in {"read", "body"}
    /\ ppc' = "flush"
    /\ interrupted' = TRUE
    /\ UNCHANGED <<ptopic, json_value, input, stdin, line, processed, sends,
                   flushes, closes, perror>>

\* a plausible slip of lines 368-369: the producer is closed without a flush
Flush_Skipped ==
    /\ ppc = "flush"
    /\ ppc' = "close"
    /\ UNCHANGED <<ptopic, json_value, input, stdin, line, processed, sends,
                   flushes, closes, perror, interrupted>>

\* line 368
Flush ==
    /\ ppc = "flush"
    /\ flushes' = flushes + 1
    /\ ppc' = "close"
    /\ UNCHANGED <<ptopic, json_value, input, stdin, line, processed, sends,
                   closes, perror, interrupted>>

\* line 369
Close ==
    /\ ppc = "close"
    /\ closes' = closes + 1
    /\ ppc' = "done"
    /\ UNCHANGED <<ptopic, json_value, input, stdin, line, processed, sends,
                   flushes, perror, interrupted>>

NextProduce ==
    \/ ReadLine /\ UNCHANGED <<cvars, fvars, rvars>>
    \/ EndOfInput /\ UNCHANGED <<cvars, fvars, rvars>>
    \/ Body /\ UNCHANGED <<cvars, fvars, rvars>>
    \/ Interrupt /\ UNCHANGED <<cvars, fvars, rvars>>
    \/ Flush /\ UNCHANGED <<cvars, fvars, rvars>>
    \/ Close /\ UNCHANGED <<cvars, fvars, rvars>>

SpecProduce == InitProduce /\ [][NextProduce]_vars

Last(s) == s[Len(s)]

(***************************************************************************)
(* The output loop of fetch (lines 173-208) and of consume (lines 267-302):*)
(* each message handed over by slice_consumer (fetch) or by the consumer   *)
(* itself (consume) is written to sys.stdout as one record.  Writing a     *)
(* record takes two steps, its text and its end of line.  KeyboardInterrupt*)
(* may be raised at any point of the loop.                                 *)
(***************************************************************************)
\* the windows of the fetch runs of this loop
RunWindowMaps ==
    UNION {[S -> {<<0, 1>>, <<1, 3>>, <<1, None>>}] : S \in SUBSET RequestTPs}

InitLoop ==
    /\ \/ /\ cmd = "fetch"
          /\ \E d \in RunWindowMaps : InitRun(d, 0..MaxOffset, MaxPulls)
       \/ /\ cmd = "consume"
          /\ InitRun(<<>>, 0..MaxOffset, MaxPulls)
    /\ rpc = "next"
    /\ out = <<>>
    /\ close_calls = 0
    /\ sigint = FALSE
    /\ run_status = -1
    /\ FetchIdle
    /\ ProduceIdle

\* line 174, first next(): slice_consumer runs up to its for loop
FetchStart ==
    /\ cmd = "fetch"
    /\ rpc = "next"
    /\ Start
    /\ UNCHANGED <<rvars, fvars, pvars>>

\* line 174: slice_consumer takes a message; it hands it to the loop body
\* (line 67), goes on to its next message, returns (line 70) or raises
FetchPull ==
    /\ cmd = "fetch"
    /\ rpc = "next"
    /\ PullAny
    /\ IF pc' = "error"
       THEN \* the KeyError of line 53 leaves fetch uncaught
            /\ rpc' = "crashed"
            /\ run_status' = 1
       ELSE /\ rpc' = IF yielded' # yielded THEN "body"
                      ELSE IF pc' = "done" THEN "close"
                      ELSE "next"
            /\ UNCHANGED run_status
    /\ UNCHANGED <<cmd, out, close_calls, sigint, fvars, pvars>>

\* line 268: consume takes a message from the consumer
ConsumePull ==
    /\ cmd = "consume"
    /\ rpc = "next"
    /\ pc = "start"
    /\ Len(pulled) < max_pulls
    /\ \E m \in Messages(offsets) :
          /\ m.offset >= LastOffset(pulled, TopicPartition(m))
          /\ pulled' = Append(pulled, m)
          /\ yielded' = Append(yielded, m)
    /\ rpc' = "body"
    /\ UNCHANGED <<pc, caller_dict, topic_dict, assigned, assign_calls, seeks,
                   error, offsets, max_pulls>>
    /\ UNCHANGED <<cmd, out, close_calls, sigint, run_status, fvars, pvars>>

\* lines 45, 174, 268: the consumer's stop condition ends the for loop
LoopTimeout ==
    /\ rpc = "next"
    /\ \/ cmd = "fetch" /\ Timeout
       \/ cmd = "consume" /\ pc = "start" /\ UNCHANGED cvars
    /\ rpc' = "close"
    /\ UNCHANGED <<cmd, out, close_calls, sigint, run_status, fvars, pvars>>

\* lines 185-200, 279-294: print, or json.dump, writes the text of the record
WriteRecord ==
    /\ rpc = "body"
    /\ out' = Append(out, [message |-> Last(yielded), complete |-> FALSE])
    /\ rpc' = "partial"
    /\ UNCHANGED <<cmd, close_calls, sigint, run_status, cvars, fvars, pvars>>

\* lines 201-203, 295-297: the end of line is written and sys.stdout flushed;
\* the for loop asks for the next message
WriteNewline ==
    /\ rpc = "partial"
    /\ out' = [out EXCEPT ![Len(out)].complete = TRUE]
    /\ rpc' = IF pc = "done" THEN "close" ELSE "next"
    /\ UNCHANGED <<cmd, close_calls, sigint, run_status, cvars, fvars, pvars>>

\* lines 205-206, 299-300: except KeyboardInterrupt: pass
LoopInterrupt ==
    /\ rpc \in {"next", "body", "partial"}
    /\ sigint' = TRUE
    /\ rpc' = "close"
    /\ UNCHANGED <<cmd, out, close_calls, run_status, cvars, fvars, pvars>>

\* lines 208, 302: consumer.close(), and the command returns
CloseConsumer ==
    /\ rpc = "close"
    /\ close_calls' = close_calls + 1
    /\ run_status' = 0
    /\ rpc' = "exited"
    /\ UNCHANGED <<cmd, out, sigint, cvars, fvars, pvars>>

NextLoop ==
    \/ FetchStart
    \/ FetchPull
    \/ ConsumePull
    \/ LoopTimeout
    \/ WriteRecord
    \/ WriteNewline
    \/ LoopInterrupt
    \/ CloseConsumer

SpecLoop == InitLoop /\ [][NextLoop]_vars

(***************************************************************************)
(* Properties of slice_consumer                                            *)
(***************************************************************************)
\* a message was taken from the client in this step
Pulled(m) == pulled' = Append(pulled, m)

\* the offset of m lies in [start, end) of the window d holds for its partition
InWindow(m, d) ==
    /\ TopicPartition(m) \in DOMAIN d
    /\ m.offset >= d[TopicPartition(m)][1]
    /\ \/ d[TopicPartition(m)][2] = None
       \/ m.offset < d[TopicPartition(m)][2]

InWindowSubSeq(s, d) == LET Test(m) == InWindow(m, d) IN SelectSeq(s, Test)

NonDecreasing(s) ==
    \A i, j \in 1..Len(s) :
        (i < j /\ TopicPartition(s[i]) = TopicPartition(s[j]))
            => s[i].offset <= s[j].offset

StrictlyIncreasing(s) ==
    \A i, j \in 1..Len(s) :
        (i < j /\ TopicPartition(s[i]) = TopicPartition(s[j]))
            => s[i].offset < s[j].offset

OffsetsOf(s) == [i \in 1..Len(s) |-> s[i].offset]

IsPrefix(s, t) == Len(s) <= Len(t) /\ s = SubSeq(t, 1, Len(s))

Ended == pc \in {"done", "timeout", "error"}

\* C1 (as stated): for every delivered stream with non-decreasing offsets per
\* partition, the yielded sequence is exactly the subsequence of the pulled
\* messages whose offset lies in [start, end) of their partition's window.
C1_AsStated ==
    NonDecreasing(pulled) => yielded = InWindowSubSeq(pulled, caller_dict)

\* C1 (amended): for every delivered stream with strictly increasing offsets
\* per partition, the yielded sequence is exactly the subsequence of the
\* pulled messages whose offset lies in [start, end) of their partition's
\* window, in delivery order.
C1_ExactSlice ==
    StrictlyIncreasing(pulled) => yielded = InWindowSubSeq(pulled, caller_dict)

\* two windows, an interleaved strictly increasing stream, of which one
\* message of each partition was yielded and one was dropped
C1_Witness ==
    /\ StrictlyIncreasing(pulled)
    /\ Len(pulled) = 3
    /\ Len(yielded) = 2
    /\ TopicPartition(yielded[1]) # TopicPartition(yielded[2])
    /\ error = "none"

\* the window [5, 8) on one partition, the only window of the run
ExampleDict == [tp \in {<<"t", 0>>} |-> <<5, 8>>]

ExampleFeed == <<4, 5, 6, 7, 8, 9>>

\* C2 (as stated): in every run, once the working set is empty no further
\* message is pulled and the sequence ends.
C2_AsStated ==
    (pc # "start" /\ DOMAIN topic_dict = {})
        => (pc = "done" /\ ~ENABLED PullAny)

\* C2 (amended): in every run started with at least one window, once the
\* working set is empty no further message is pulled and the sequence ends,
\* right after the message that removed the last window; the window [5, 8)
\* fed 4,5,6,7,8,9 yields exactly 5,6,7 and ends without pulling 8 or 9.
C2_StopsWhenEmpty ==
    /\ (pc # "start" /\ DOMAIN caller_dict # {} /\ DOMAIN topic_dict = {})
            => (pc = "done" /\ ~ENABLED PullAny)
    /\ pc = "done" =>
            /\ DOMAIN topic_dict = {}
            /\ pulled # <<>>
            /\ TopicPartition(Last(pulled)) \in DOMAIN caller_dict
            /\ caller_dict[TopicPartition(Last(pulled))][2] # None
            /\ Last(pulled).offset
                   >= caller_dict[TopicPartition(Last(pulled))][2] - 1
    /\ (caller_dict = ExampleDict /\ pc # "start"
            /\ \A i \in 1..Len(pulled) : TopicPartition(pulled[i]) = <<"t", 0>>
            /\ IsPrefix(OffsetsOf(pulled), ExampleFeed))
            => /\ Len(pulled) <= 4
               /\ IsPrefix(OffsetsOf(yielded), <<5, 6, 7>>)
               /\ Len(yielded) = IF Len(pulled) = 0 THEN 0 ELSE Len(pulled) - 1
               /\ (Len(pulled) = 4) <=> (pc = "done")

\* the run of [5, 8) after 4,5,6,7: ended, 5,6,7 yielded
C2_Witness ==
    /\ caller_dict = ExampleDict
    /\ OffsetsOf(pulled) = <<4, 5, 6, 7>>
    /\ OffsetsOf(yielded) = <<5, 6, 7>>
    /\ pc = "done"

\* C3: the message at offset N of a partition whose window is [N, N+1) is
\* yielded, and the same message closes the window (entry removed and the
\* assignment re-issued without it).
C3_SingleOffset ==
    [][\A m \in Messages(offsets) :
          (/\ pc = "pull"
           /\ Pulled(m)
           /\ TopicPartition(m) \in DOMAIN topic_dict
           /\ topic_dict[TopicPartition(m)] = <<m.offset, m.offset + 1>>)
          => /\ yielded' = Append(yielded, m)
             /\ TopicPartition(m) \notin DOMAIN topic_dict'
             /\ assigned' = DOMAIN topic_dict'
             /\ error' = "none"]_vars

\* a single-offset window closed by its own message, which was yielded, while
\* another window is still open
C3_Witness ==
    /\ pc = "pull"
    /\ pulled # <<>>
    /\ yielded # <<>>
    /\ Last(yielded) = Last(pulled)
    /\ TopicPartition(Last(pulled)) \in DOMAIN caller_dict
    /\ caller_dict[TopicPartition(Last(pulled))]
          = <<Last(pulled).offset, Last(pulled).offset + 1>>
    /\ TopicPartition(Last(pulled)) \notin DOMAIN topic_dict

\* C4: a pulled message whose (topic, partition) is not a key of the working
\* set is discarded: not yielded, no error, working set and assignment
\* unchanged, and the run goes on to the next message.
C4_DiscardUnwanted ==
    [][\A m \in Messages(offsets) :
          (/\ pc = "pull"
           /\ Pulled(m)
           /\ TopicPartition(m) \notin DOMAIN topic_dict)
          => /\ yielded' = yielded
             /\ error' = "none"
             /\ topic_dict' = topic_dict
             /\ assigned' = assigned
             /\ pc' = "pull"]_vars

Unbounded(d) == {tp \in DOMAIN d : d[tp][2] = None}

\* C5: a window with an unbounded end is never removed and never triggers a
\* re-assignment, every message of its partition at offset >= start is
\* yielded, and the run ends only when all other windows have closed or the
\* client's timeout fires.
C5_UnboundedNeverCloses ==
    /\ [][\A m \in Messages(offsets) :
            (/\ pc = "pull"
             /\ Pulled(m)
             /\ TopicPartition(m) \in Unbounded(caller_dict))
            => /\ topic_dict' = topic_dict
               /\ assign_calls' = assign_calls
               /\ (m.offset >= caller_dict[TopicPartition(m)][1]
                      => yielded' = Append(yielded, m))]_vars
    /\ []((Unbounded(caller_dict) # {} /\ Ended)
            => \/ pc = "timeout"
               \/ DOMAIN topic_dict \subseteq Unbounded(caller_dict))

(***************************************************************************)
(* Properties of the topic-spec parsing of fetch                           *)
(***************************************************************************)
\* the grammar of a fragment: [P=] followed by N, or by [S]:[E] with E
\* optionally written +K
WellFormedFrag(s) ==
    LET body == IF IndexOf(s, "=") > 0 THEN From(s, IndexOf(s, "=") + 1) ELSE s
        colon == IndexOf(body, ":")
        first == SubSeq(body, 1, colon - 1)
        second == From(body, colon + 1)
    IN  /\ IndexOf(s, "=") > 0 => AllDigits(SubSeq(s, 1, IndexOf(s, "=") - 1))
        /\ IF colon = 0 THEN AllDigits(body)
           ELSE /\ first = <<>> \/ AllDigits(first)
                /\ \/ second = <<>>
                   \/ AllDigits(second)
                   \/ second[1] = "+" /\ AllDigits(From(second, 2))

\* the grammar topic[fragment,fragment,...]
WellFormedArg(t) ==
    \E open \in 2..(Len(t) - 2) :
        /\ \A i \in 1..(open - 1) : t[i] \notin {"[", "]"}
        /\ t[open] = "["
        /\ t[Len(t)] = "]"
        /\ LET slices == Split(SubSeq(t, open + 1, Len(t) - 1), ",")
           IN  \A i \in 1..Len(slices) : WellFormedFrag(slices[i])

\* C6: every malformed topic argument ends fetch with the argument named in a
\* logged error and exit status 1, before any consumer is constructed, and
\* never with an uncaught exception or with consumption starting.
C6_MalformedIsFatal ==
    \A i \in 1..arg_i :
        ~WellFormedArg(topic[i])
            => /\ fpc = "exit"
               /\ exit_status = 1
               /\ \E j \in 1..Len(logged) : logged[j] = topic[i]
               /\ raised = "none"
               /\ ~consumer_made

\* the window the mini-language gives a fragment
StartOf(f) == IF f.start = <<>> THEN 0 ELSE f.start[1]

Meaning(f) ==
    <<StartOf(f),
      IF f.kind = "single" THEN StartOf(f) + 1
      ELSE IF f.end = <<>> THEN None
      ELSE IF f.rel THEN StartOf(f) + f.end[1]
      ELSE f.end[1]>>

\* the (topic, partition) keys a fragment of an argument named name addresses
KeysOf(name, f) ==
    IF f.part = <<>> THEN {<<name, p>> : p \in all_partitions}
    ELSE {<<name, f.part[1]>>}

LastFrag(a) == a.frags[Len(a.frags)]

\* C7: every fragment of a well-formed argument maps to the window of the
\* mini-language (N: (N, N+1); S:E: (S, E); S: : (S, unbounded); :E: (0, E);
\* : : (0, unbounded); +K: start + K), for partition P alone when prefixed P=
\* and for every partition of all_partitions otherwise.
C7_FragmentWindows ==
    /\ (\A i \in 1..arg_i : WellFormedArg(topic[i]))
          => (fpc \in {"parse", "consume"} /\ raised = "none")
    /\ (arg_src # <<>> /\ arg_i >= 1)
        => /\ fpc \in {"parse", "consume"}
           /\ raised = "none"
           /\ exit_status = -1
           /\ \A k \in KeysOf(arg_src[arg_i].name, LastFrag(arg_src[arg_i])) :
                 /\ k \in DOMAIN fetch_dict
                 /\ fetch_dict[k] = Meaning(LastFrag(arg_src[arg_i]))
           /\ (Len(arg_src) = 1 /\ Len(arg_src[1].frags) = 1)
                 => DOMAIN fetch_dict = KeysOf(arg_src[1].name, arg_src[1].frags[1])

\* an argument ending in a relative fragment prefixed P= was parsed and the
\* window set handed on
C7_Witness ==
    /\ arg_src # <<>>
    /\ arg_i = Len(topic)
    /\ fpc = "consume"
    /\ LastFrag(arg_src[arg_i]).rel
    /\ LastFrag(arg_src[arg_i]).part # <<>>
    /\ \E k \in DOMAIN fetch_dict : fetch_dict[k] = <<0, 2>>

\* the fragments of the arguments taken so far, in order, each with the topic
\* name of its argument
RECURSIVE Flat(_, _)
Flat(src, n) ==
    IF n = 0 THEN <<>>
    ELSE Flat(src, n - 1)
         \o [j \in 1..Len(src[n].frags) |->
                [name |-> src[n].name, frag |-> src[n].frags[j]]]

Addressing(flat, k) == {i \in 1..Len(flat) : k \in KeysOf(flat[i].name, flat[i].frag)}

Greatest(S) == CHOOSE x \in S : \A y \in S : y <= x

Str(t) == [i \in 1..Len(t) |-> t[i]]

C9_WindowsOrdered ==
    fpc = "consume" =>
        \A k \in DOMAIN fetch_dict :
            /\ fetch_dict[k][1] >= 0
            /\ fetch_dict[k][2] # None => fetch_dict[k][1] <= fetch_dict[k][2]

(***************************************************************************)
(* Properties of produce                                                   *)
(***************************************************************************)
\* number of lines taken from standard input
Consumed == Len(input) - Len(stdin)

\* the send the claim gives a line: topic and value always, key and partition
\* exactly when the line has the field
ExpectedSend(l, value) ==
    /\ l.kind = "object"
    /\ "value" \in DOMAIN l.fields
    /\ DOMAIN value = {"topic", "value"}
                         \cup (IF "key" \in DOMAIN l.fields THEN {"key"} ELSE {})
                         \cup (IF l.partition THEN {"partition"} ELSE {})
    /\ value["topic"] = ptopic
    /\ "key" \in DOMAIN l.fields => value["key"] = l.fields["key"]
    /\ l.partition => value["partition"] = 1

\* the sends are those of the first lines of the input, one each and in order,
\* and as many as loop bodies have run to their end
OneSendPerLine ==
    /\ Len(sends) = processed
    /\ processed <= Consumed
    /\ ppc = "read" => processed = Consumed
    /\ \A i \in 1..Len(sends) : ExpectedSend(input[i], sends[i])

BadLine(l) == l.kind # "object" \/ "value" \notin DOMAIN l.fields

\* C11: a line that is not valid JSON or lacks the value field, once the loop
\* body runs on it, is fatal: no send is issued for it, no later line is read
\* or sent, and the run ends with an uncaught exception (no flush, no close,
\* no normal completion).
C11_BadLineIsFatal ==
    /\ \A i \in 1..Consumed :
          BadLine(input[i])
             => /\ i = Consumed
                /\ Len(sends) = i - 1
                /\ \/ ppc = "body"
                   \/ interrupted
                   \/ /\ ppc = "error"
                      /\ perror # "none"
                      /\ flushes = 0
                      /\ closes = 0
                      /\ ~ENABLED NextProduce
    /\ ppc = "error" => BadLine(input[Consumed])
    /\ (ppc = "done" /\ ~interrupted) => \A i \in 1..Len(input) : ~BadLine(input[i])

\* the first line had no value field and ended the run, with a line that
\* could have been sent left unread
C11_Witness ==
    /\ ppc = "error"
    /\ perror = "KeyError"
    /\ sends = <<>>
    /\ Consumed = 1
    /\ stdin # <<>>
    /\ ~BadLine(stdin[1])

\* C12: in a run whose loop ends by interrupt or end of input, nothing is read
\* or sent after the loop has ended, flush is called exactly once, after the
\* last send, and close exactly once, after flush has returned.
C12_FlushThenClose ==
    /\ [][(interrupted \/ ppc \in {"flush", "close", "done"})
             => (stdin' = stdin /\ sends' = sends /\ processed' = processed)]_vars
    /\ [](ppc \in {"read", "body", "flush"} => (flushes = 0 /\ closes = 0))
    /\ [](ppc = "close" => (flushes = 1 /\ closes = 0))
    /\ [](ppc = "done" => (flushes = 1 /\ closes = 1))
    /\ [](interrupted => ppc \in {"flush", "close", "done"})
    /\ [](ppc \in {"flush", "close"} => ENABLED NextProduce)

\* an interrupt arrived with a line still unread; one send before it, then
\* flush and close
C12_Witness ==
    /\ interrupted
    /\ ppc = "done"
    /\ Len(sends) = 1
    /\ stdin # <<>>
    /\ flushes = 1
    /\ closes = 1

(***************************************************************************)
(* Properties of the output loop of fetch and consume                      *)
(***************************************************************************)
\* the records of the messages handed to the loop body, each written whole
CompleteRecords ==
    [i \in 1..Len(yielded) |-> [message |-> yielded[i], complete |-> TRUE]]

\* C13: when KeyboardInterrupt arrives at any point of the loop of consume
\* or fetch, the command exits with status 0 and every message already
\* handed to the loop has been written as one complete record, once: no
\* record is left partially written and none is missing.
C13_InterruptCompletesRecords ==
    (sigint /\ rpc = "exited") => (run_status = 0 /\ out = CompleteRecords)

ClosedWindows == (DOMAIN caller_dict) \ (DOMAIN topic_dict)

\* C15: once slice_consumer has started, the client's assignment is the key
\* set of the working set at every point (so whenever a message is about to
\* be pulled, and as soon as a window is closed), and the number of assign
\* calls is 1 plus the number of windows closed so far; before the start
\* nothing is assigned.
C15_AssignmentIsWorkingSet ==
    /\ pc = "start" => (assigned = {} /\ assign_calls = 0)
    /\ pc # "start" =>
          /\ assigned = DOMAIN topic_dict
          /\ assign_calls = 1 + Cardinality(ClosedWindows)

C15_Witness ==
    /\ pc = "pull"
    /\ assign_calls = 2
    /\ Cardinality(DOMAIN caller_dict) = 2
    /\ assigned = DOMAIN topic_dict
    /\ Cardinality(assigned) = 1
    /\ yielded # <<>>

\* C16: seek is called exactly once per initial partition, to its start,
\* when the run starts (after the initial assign, before the first pull) and
\* never again, and every entry remaining in the working set keeps the
\* (start, end) the caller gave it.
C16_OpenWindowsUntouched ==
    /\ pc = "start" => (pulled = <<>> /\ \A tp \in TPs : seeks[tp] = <<>>)
    /\ pc # "start" =>
          \A tp \in TPs :
              seeks[tp] = IF tp \in DOMAIN caller_dict
                          THEN <<caller_dict[tp][1]>>
                          ELSE <<>>
    /\ \A tp \in DOMAIN topic_dict :
          tp \in DOMAIN caller_dict /\ topic_dict[tp] = caller_dict[tp]

\* one window closed by the first message yielded, a message of the window
\* still open yielded after it
C16_Witness ==
    /\ pc = "pull"
    /\ Len(yielded) = 2
    /\ assign_calls = 2
    /\ TopicPartition(yielded[1]) \notin DOMAIN topic_dict
    /\ TopicPartition(yielded[2]) \in DOMAIN topic_dict
    /\ topic_dict[TopicPartition(yielded[2])][1] > 0

\* C17: the working set only shrinks: a step removes at most one entry,
\* only on pulling a message of the entry's own partition whose offset is
\* >= end - 1 of a bounded window, changes no entry that stays, and adds
\* none.
C17_WorkingSetOnlyShrinks ==
    [][/\ DOMAIN topic_dict' \subseteq DOMAIN topic_dict
       /\ \A tp \in DOMAIN topic_dict' : topic_dict'[tp] = topic_dict[tp]
       /\ Cardinality((DOMAIN topic_dict) \ (DOMAIN topic_dict')) <= 1
       /\ \A tp \in (DOMAIN topic_dict) \ (DOMAIN topic_dict') :
             /\ Len(pulled') = Len(pulled) + 1
             /\ TopicPartition(Last(pulled')) = tp
             /\ topic_dict[tp][2] # None
             /\ Last(pulled').offset >= topic_dict[tp][2] - 1]_vars

\* two windows closed one after the other, a discarded message between
C17_Witness ==
    /\ pc = "done"
    /\ Len(pulled) = 3
    /\ Cardinality(ClosedWindows) = 2
    /\ Len(yielded) = 2
    /\ yielded[2] = pulled[3]

\* C18: the map the caller passed in never changes, whatever the run does
\* to its working set.
C18_CallerMapUnchanged == [][caller_dict' = caller_dict]_vars

C18_Witness ==
    /\ pc = "done"
    /\ Cardinality(DOMAIN caller_dict) = 2
    /\ topic_dict = <<>>
    /\ Len(pulled) = 2

\* the windows with start == end
Degenerate == {tp \in DOMAIN caller_dict : caller_dict[tp][1] = caller_dict[tp][2]}

PulledOf(tp) == LET Test(m) == TopicPartition(m) = tp IN SelectSeq(pulled, Test)

\* a message of tp at or after the last offset of its window has been pulled
Closing(tp) ==
    /\ caller_dict[tp][2] # None
    /\ \E i \in 1..Len(pulled) :
          /\ TopicPartition(pulled[i]) = tp
          /\ pulled[i].offset >= caller_dict[tp][2] - 1

NeverYielded(tp) == \A i \in 1..Len(yielded) : TopicPartition(yielded[i]) # tp

\* C19 (as stated): a window with start == end yields no message and is
\* retired, with a re-assignment, by the very first message pulled for its
\* partition, whatever that message's offset.
C19_AsStated ==
    \A tp \in Degenerate :
        /\ NeverYielded(tp)
        /\ PulledOf(tp) # <<>> => (tp \notin DOMAIN topic_dict /\ tp \notin assigned)

\* C19 (amended): a window with start == end yields no message and is
\* retired, with a re-assignment, by the first message pulled for its
\* partition whose offset is >= end - 1, and by nothing else.
C19_DegenerateRetired ==
    \A tp \in Degenerate :
        /\ NeverYielded(tp)
        /\ pc # "start" =>
              /\ Closing(tp) <=> tp \notin DOMAIN topic_dict
              /\ Closing(tp) => tp \notin assigned

\* the window [2, 2) stays open at offset 0 and is retired at a later one
C19_Witness ==
    \E tp \in Degenerate :
        /\ Len(pulled) = 2
        /\ TopicPartition(pulled[1]) = tp
        /\ pulled[1].offset < caller_dict[tp][2] - 1
        /\ TopicPartition(pulled[2]) = tp
        /\ tp \notin DOMAIN topic_dict
        /\ yielded = <<>>

\* C20: when every windowed partition has delivered a message with offset
\* >= end - 1 of its bounded window, the run has ended with an empty working
\* set; while some partition has delivered no such message, the run does not
\* end by itself: it has ended only if the client's timeout stopped it.
C20_FiniteWhenItCan ==
    /\ (pc # "start" /\ DOMAIN caller_dict # {}
          /\ \A tp \in DOMAIN caller_dict : Closing(tp))
          => (pc = "done" /\ topic_dict = <<>>)
    /\ (Ended /\ \E tp \in DOMAIN caller_dict : ~Closing(tp))
          => pc = "timeout"

====
